---- MODULE Spec2Model ----
(***************************************************************************)
(* WicketWorm browser inference (packages/ui/src/inference/model.ts), the  *)
(* x-axis helper of shared-types, and the callers of predict.              *)
(*                                                                         *)
(* JavaScript numbers are modelled as exact rationals <<n, d>> (d > 0, in  *)
(* lowest terms) together with the IEEE-754 special values: NaN, +Infinity *)
(* and -Infinity, and the JavaScript value undefined.  A finite result     *)
(* whose magnitude exceeds MaxValue overflows to +/-Infinity, as a double  *)
(* does beyond Number.MAX_VALUE.  Rounding and the sign of zero are not    *)
(* modelled.                                                               *)
(***************************************************************************)
EXTENDS Integers, Sequences, FiniteSets, TLC

\* ------------------------------------------------------------------ bounds

\* Largest finite magnitude of the modelled number format (Number.MAX_VALUE).
MaxValue == 4000

\* Largest runs value of the enumerated GameStates.
MaxRuns == 20

\* Largest balls value (bowled, remaining) of the enumerated GameStates.
MaxBalls == 12

\* Number of predict calls that may be in progress over one model.
NCalls == 2

\* ------------------------------------------------------- JavaScript numbers

NaN == <<0, 0>>

PosInf == <<1, 0>>

NegInf == <<-1, 0>>

Undefined == <<0, -1>>

Zero == <<0, 1>>

One == <<1, 1>>

AbsInt(i) == IF i < 0 THEN -i ELSE i

SignInt(i) == IF i < 0 THEN -1 ELSE IF i > 0 THEN 1 ELSE 0

RECURSIVE Gcd(_, _)
Gcd(a, b) == IF b = 0 THEN a ELSE Gcd(b, a % b)

\* The number n/d (d # 0), reduced, or +/-Infinity when it is out of range.
Mk(n, d) ==
    LET s == IF d < 0 THEN -1 ELSE 1
        nn == s * n
        dd == s * d
        g == Gcd(AbsInt(nn), dd)
    IN  IF \/ AbsInt(nn) \div dd > MaxValue
           \/ (AbsInt(nn) \div dd = MaxValue /\ AbsInt(nn) % dd > 0)
        THEN (IF nn > 0 THEN PosInf ELSE NegInf)
        ELSE <<nn \div g, dd \div g>>

N(i) == Mk(i, 1)

\* ToNumber: undefined converts to NaN in arithmetic.
ToNumber(v) == IF v = Undefined THEN NaN ELSE v

IsNaN(v) == ToNumber(v) = NaN

IsInf(v) == v = PosInf \/ v = NegInf

IsFinite(v) == v[2] > 0

Sign(v) == SignInt(v[1])

Neg(v) == IF IsNaN(v) THEN NaN ELSE <<-v[1], v[2]>>

Add(x, y) ==
    LET a == ToNumber(x)
        b == ToNumber(y)
    IN  IF a = NaN \/ b = NaN THEN NaN
        ELSE IF IsInf(a) /\ IsInf(b) THEN (IF a = b THEN a ELSE NaN)
        ELSE IF IsInf(a) THEN a
        ELSE IF IsInf(b) THEN b
        ELSE LET g == Gcd(a[2], b[2])
             IN  Mk(a[1] * (b[2] \div g) + b[1] * (a[2] \div g),
                    (a[2] \div g) * b[2])

Sub(x, y) == Add(x, Neg(y))

Mul(x, y) ==
    LET a == ToNumber(x)
        b == ToNumber(y)
    IN  IF a = NaN \/ b = NaN THEN NaN
        ELSE IF IsInf(a) \/ IsInf(b)
             THEN (IF a = Zero \/ b = Zero THEN NaN
                   ELSE IF Sign(a) * Sign(b) > 0 THEN PosInf ELSE NegInf)
        ELSE IF (AbsInt(a[1]) \div a[2]) * (AbsInt(b[1]) \div b[2]) > MaxValue
             THEN (IF Sign(a) * Sign(b) > 0 THEN PosInf ELSE NegInf)
        ELSE Mk((a[1] \div Gcd(AbsInt(a[1]), b[2])) * (b[1] \div Gcd(AbsInt(b[1]), a[2])),
                (a[2] \div Gcd(AbsInt(b[1]), a[2])) * (b[2] \div Gcd(AbsInt(a[1]), b[2])))

\* IEEE division: x/0 is +/-Infinity, 0/0 and Infinity/Infinity are NaN.
Div(x, y) ==
    LET a == ToNumber(x)
        b == ToNumber(y)
    IN  IF a = NaN \/ b = NaN THEN NaN
        ELSE IF IsInf(a) /\ IsInf(b) THEN NaN
        ELSE IF IsInf(a) THEN (IF Sign(a) * Sign(b) >= 0 THEN (IF Sign(a) > 0 THEN PosInf ELSE NegInf)
                               ELSE (IF Sign(a) > 0 THEN NegInf ELSE PosInf))
        ELSE IF IsInf(b) THEN Zero
        ELSE IF b = Zero THEN (IF a = Zero THEN NaN
                               ELSE IF Sign(a) > 0 THEN PosInf ELSE NegInf)
        ELSE Mul(a, <<SignInt(b[1]) * b[2], AbsInt(b[1])>>)

\* x < y on numbers; false when either side is NaN.
Lt(x, y) ==
    LET a == ToNumber(x)
        b == ToNumber(y)
    IN  IF a = NaN \/ b = NaN THEN FALSE
        ELSE IF a = b THEN FALSE
        ELSE IF a = NegInf \/ b = PosInf THEN TRUE
        ELSE IF a = PosInf \/ b = NegInf THEN FALSE
        ELSE a[1] * b[2] < b[1] * a[2]

Gt(x, y) == Lt(y, x)

Le(x, y) == Lt(x, y) \/ (~IsNaN(x) /\ ToNumber(x) = ToNumber(y))

\* JavaScript truthiness of a number or undefined.
Truthy(v) == v # Undefined /\ v # NaN /\ v # Zero

\* arr[i] of a JavaScript array (1-based here): undefined past the end.
At(arr, i) == IF i \in DOMAIN arr THEN arr[i] ELSE Undefined

\* floor(n/d) for d > 0.
FloorDiv(n, d) == IF n >= 0 THEN n \div d ELSE -((-n + d - 1) \div d)

RECURSIVE Pow2(_)
Pow2(k) == IF k = 0 THEN 1 ELSE 2 * Pow2(k - 1)

\* The smallest k with 2^k > MaxValue: 2^k overflows, 2^-k underflows to 0.
RECURSIVE ExpLimitFrom(_)
ExpLimitFrom(k) == IF Pow2(k) > MaxValue THEN k ELSE ExpLimitFrom(k + 1)

ExpLimit == ExpLimitFrom(0)

\* Math.exp.  e^x is not rational: on finite arguments the model evaluates
\* it on the grid of powers of two, 2^floor(x).  This keeps what the code
\* relies on and what a double does: exp(0) = 1, 0 <= exp(x) <= 1 for
\* x <= 0, monotonicity, overflow to +Infinity for large x, underflow to 0
\* for very negative x, exp(-Infinity) = 0 and exp(NaN) = NaN.
MathExp(x) ==
    LET a == ToNumber(x)
        k == FloorDiv(a[1], a[2])
    IN  IF a = NaN THEN NaN
        ELSE IF a = PosInf THEN PosInf
        ELSE IF a = NegInf THEN Zero
        ELSE IF k >= ExpLimit THEN PosInf
        ELSE IF k <= -ExpLimit THEN Zero
        ELSE IF k >= 0 THEN <<Pow2(k), 1>>
        ELSE <<1, Pow2(-k)>>

\* Math.min in the place of Math.max.
RECURSIVE MathMin(_)
MathMin(xs) ==
    IF Len(xs) = 0 THEN PosInf
    ELSE LET h == ToNumber(Head(xs))
             t == MathMin(Tail(xs))
         IN  IF h = NaN \/ t = NaN THEN NaN
             ELSE IF Lt(t, h) THEN t ELSE h

\* Math.max(...xs): -Infinity for no arguments, NaN if any argument is NaN.
RECURSIVE MathMax(_)
MathMax(xs) ==
    IF Len(xs) = 0 THEN NegInf
    ELSE LET h == ToNumber(Head(xs))
             t == MathMax(Tail(xs))
         IN  IF h = NaN \/ t = NaN THEN NaN
             ELSE IF Lt(h, t) THEN t ELSE h

\* ------------------------------------------------------------ shared-types

\* GameState.  matchId, matchOversLimit and completedInnings are carried by
\* the type but never read by the inference code.
mkState(inn, runs, wkts, bowled, ld, tgt, remaining, chasing) ==
    [innings |-> inn, runsFor |-> runs, wicketsDown |-> wkts,
     ballsBowled |-> bowled, lead |-> ld, target |-> tgt,
     ballsRemaining |-> remaining, isChasing |-> chasing]

OVER_OFFSET == 500

\* calculateXOver without the innings offset scaled by OVER_OFFSET.
calculateXOverNoScale(innings, over) == Add(Sub(innings, One), over)

calculateXOver(innings, over) ==
    Add(Mul(Sub(innings, One), N(OVER_OFFSET)), over)

\* --------------------------------------------------------------- model.ts

NumFeatures == 8

\* runRate without the ballsBowled > 0 guard.
runRateUnguarded(state) ==
    Mul(Div(state.runsFor, state.ballsBowled), N(6))

runRate(state) ==
    IF Gt(state.ballsBowled, Zero)
    THEN Mul(Div(state.runsFor, state.ballsBowled), N(6))
    ELSE Zero

runsPerWicket(state) == Div(state.runsFor, Add(state.wicketsDown, One))

\* requiredRunRate without the isChasing test.
requiredRunRateUnguarded(state) ==
    IF Truthy(state.target) /\ Gt(state.ballsRemaining, Zero)
    THEN Mul(Div(Sub(state.target, state.runsFor), state.ballsRemaining), N(6))
    ELSE Zero

requiredRunRate(state) ==
    IF state.isChasing /\ Truthy(state.target) /\ Gt(state.ballsRemaining, Zero)
    THEN Mul(Div(Sub(state.target, state.runsFor), state.ballsRemaining), N(6))
    ELSE Zero

extractFeatures(state) ==
    << state.innings,
       state.wicketsDown,
       runRate(state),
       state.lead,
       state.ballsRemaining,
       runsPerWicket(state),
       IF state.isChasing THEN One ELSE Zero,
       requiredRunRate(state) >>

standardize(feats, means, stds) ==
    [i \in 1..Len(feats) |-> Div(Sub(feats[i], At(means, i)), At(stds, i))]

\* weights.reduce((sum, w, j) => sum + w * standardized[j], 0), folded from
\* the left over the first k weights.
RECURSIVE dotProduct(_, _, _)
dotProduct(weights, z, k) ==
    IF k = 0 THEN Zero
    ELSE Add(dotProduct(weights, z, k - 1), Mul(weights[k], At(z, k)))

computeLogits(m, z) ==
    [i \in 1..Len(m.coefficients) |->
        Add(dotProduct(m.coefficients[i], z, Len(m.coefficients[i])),
            At(m.intercepts, i))]

\* exps.reduce((a, b) => a + b, 0)
RECURSIVE sumExps(_, _)
sumExps(exps, k) ==
    IF k = 0 THEN Zero ELSE Add(sumExps(exps, k - 1), exps[k])

\* softmax without the subtraction of the maximum logit.
softmaxNoShift(lg) ==
    LET exps == [i \in 1..Len(lg) |-> MathExp(lg[i])]
        total == sumExps(exps, Len(exps))
    IN  [i \in 1..Len(exps) |-> Div(exps[i], total)]

softmax(lg) ==
    LET maxLogit == MathMax(lg)
        exps == [i \in 1..Len(lg) |-> MathExp(Sub(lg[i], maxLogit))]
        total == sumExps(exps, Len(exps))
    IN  [i \in 1..Len(exps) |-> Div(exps[i], total)]

\* The return object with the Draw and Loss classes exchanged.
mkResultSwapped(p) == [pWin |-> At(p, 1), pDraw |-> At(p, 3), pLoss |-> At(p, 2)]

mkResult(p) == [pWin |-> At(p, 1), pDraw |-> At(p, 2), pLoss |-> At(p, 3)]

predict(m, state) ==
    mkResult(softmax(computeLogits(m,
        standardize(extractFeatures(state), m.featureMeans, m.featureStds))))

\* ------------------------------------------------------- enumerated inputs

Vec(s) == [i \in DOMAIN s |-> N(s[i])]

\* The feature list of PLAN.md, in the order extractFeatures emits it.
PlanFeatureNames ==
    << "innings", "wicketsDown", "runRate", "lead", "ballsRemaining",
       "runsPerWicket", "isChasing", "requiredRunRate" >>

\* featureNames of the shipped model.json as MODEL_EQUATIONS.md records it.
DocFeatureNames ==
    << "innings", "wicketsDown", "runRate", "lead", "ballsUsed",
       "runsPerWicket", "isChasing", "requiredRunRate" >>

MeansZero == Vec(<<0, 0, 0, 0, 0, 0, 0, 0>>)

\* MODEL_EQUATIONS.md's featureMeans, on a small integer scale.
MeansSample == Vec(<<2, 4, 3, 1, 6, 5, 0, 0>>)

StdsOne == Vec(<<1, 1, 1, 1, 1, 1, 1, 1>>)

\* MODEL_EQUATIONS.md's featureStds, on a small scale (0.484 ~ 1/2).
StdsSample == << N(1), N(3), N(1), N(4), N(2), N(2), Mk(1, 2), N(1) >>

\* The signs of MODEL_EQUATIONS.md's coefficients (Win, Draw, Loss).
RowsSign ==
    << Vec(<<1, -1, -1, 1, 1, 1, -1, 1>>),
       Vec(<<-1, 1, -1, -1, -1, -1, 1, 1>>),
       Vec(<<-1, -1, 1, 1, 1, 1, -1, -1>>) >>

RowsZero ==
    << Vec(<<0, 0, 0, 0, 0, 0, 0, 0>>),
       Vec(<<0, 0, 0, 0, 0, 0, 0, 0>>),
       Vec(<<0, 0, 0, 0, 0, 0, 0, 0>>) >>

\* Large weights on innings: logits near and beyond the number range.
RowsBig ==
    << Vec(<<MaxValue \div 2, 0, 0, 0, 0, 0, 0, 0>>),
       Vec(<<-(MaxValue \div 2), 0, 0, 0, 0, 0, 0, 0>>),
       Vec(<<0, 0, 0, 0, 0, 0, 0, 0>>) >>

InterceptsZero == Vec(<<0, 0, 0>>)

InterceptsSample == Vec(<<-1, 0, 1>>)

mkModel(rows, ints, means, stds, names) ==
    [coefficients |-> rows, intercepts |-> ints, featureMeans |-> means,
     featureStds |-> stds, featureNames |-> names]

\* The value of `model` before loadModel has resolved.
NoModel == mkModel(<<>>, <<>>, <<>>, <<>>, <<>>)

\* Artifacts of the documented shape: 3 rows of 8, 3 intercepts, 8 means,
\* 8 non-zero stds, 8 names.
ShapedArtifacts ==
    { mkModel(r, InterceptsZero, m, s, PlanFeatureNames) :
        r \in {RowsSign, RowsZero, RowsBig},
        m \in {MeansZero, MeansSample},
        s \in {StdsOne, StdsSample} }
    \cup { mkModel(RowsSign, InterceptsSample, MeansZero, StdsOne, PlanFeatureNames),
           mkModel(RowsSign, InterceptsSample, MeansSample, StdsSample, DocFeatureNames) }

\* JSON documents a server can equally return: arrays of the wrong length,
\* a zero scale (a feature that was constant in training).
MalformedArtifacts ==
    { mkModel(RowsSign, InterceptsZero, SubSeq(MeansSample, 1, 7), StdsOne, PlanFeatureNames),
      mkModel(RowsSign, InterceptsZero, MeansSample, SubSeq(StdsSample, 1, 7), PlanFeatureNames),
      mkModel(RowsSign, InterceptsZero, MeansSample,
              [StdsSample EXCEPT ![7] = Zero], PlanFeatureNames),
      mkModel(SubSeq(RowsSign, 1, 2), InterceptsZero, MeansZero, StdsOne, PlanFeatureNames),
      mkModel([RowsSign EXCEPT ![3] = SubSeq(RowsSign[3], 1, 7)],
              InterceptsZero, MeansZero, StdsOne, PlanFeatureNames),
      mkModel([RowsSign EXCEPT ![1] = Append(RowsSign[1], One)],
              InterceptsZero, MeansZero, StdsOne, PlanFeatureNames),
      mkModel(RowsSign, SubSeq(InterceptsSample, 1, 2), MeansZero, StdsOne, PlanFeatureNames),
      mkModel(RowsSign, InterceptsZero, MeansZero, StdsOne, SubSeq(PlanFeatureNames, 1, 7)) }

Artifacts == ShapedArtifacts \cup MalformedArtifacts

\* What fetch('/model.json') can resolve to: ok with a JSON body, or not ok.
Responses ==
    { [ok |-> TRUE, statusText |-> "OK", body |-> a] : a \in Artifacts }
    \cup { [ok |-> FALSE, statusText |-> "Not Found", body |-> NoModel] }

\* GameStates given to predict.  wicketsDown = -1 is a finite number the
\* GameState type admits.
PredictStates ==
    { mkState(N(i), N(r), N(w), N(b), N(l), t, N(rem), c) :
        i \in {1, 4}, r \in {0, MaxRuns}, w \in {-1, 0, 3},
        b \in {0, MaxBalls}, l \in {-5, 0},
        t \in {Undefined, N(MaxRuns + 1)}, rem \in {0, MaxBalls},
        c \in BOOLEAN }

\* GameStates given to extractFeatures alone.
FeatureStates ==
    { mkState(N(i), N(r), N(w), N(b), N(l), t, N(rem), c) :
        i \in {1, 4}, r \in {0, 7, MaxRuns}, w \in {-1, 0, 3, 10},
        b \in {0, 1, MaxBalls}, l \in {-5, 0},
        t \in {Undefined, Zero, N(7), N(MaxRuns + 1)},
        rem \in {0, 1, MaxBalls}, c \in BOOLEAN }

\* GameStates of the interleaved calls.
CallStates ==
    { mkState(N(1), N(MaxRuns), N(0), N(MaxBalls), N(0), Undefined, N(MaxBalls), FALSE),
      mkState(N(4), N(0), N(3), N(0), N(-5), N(MaxRuns + 1), N(MaxBalls), TRUE),
      mkState(N(4), N(MaxRuns), N(3), N(MaxBalls), N(-5), N(MaxRuns + 1), N(0), TRUE) }

CallResponses ==
    { [ok |-> TRUE, statusText |-> "OK", body |-> a] :
        a \in { mkModel(RowsSign, InterceptsSample, MeansSample, StdsSample, DocFeatureNames),
                mkModel(RowsBig, InterceptsZero, MeansZero, StdsOne, PlanFeatureNames),
                mkModel(RowsSign, InterceptsZero, MeansSample,
                        [StdsSample EXCEPT ![7] = Zero], PlanFeatureNames) } }
    \cup { [ok |-> FALSE, statusText |-> "Not Found", body |-> NoModel] }

\* ------------------------------------------------------------------ state

Calls == 1..NCalls

\* matchOversLimit of the match data.
MatchOversLimit == 450

\* Over numbers as main.ts forms them, ballsBowled / 6: the start of an
\* innings, its first ball and first over, and the last ball and last over
\* the overs limit allows.
XOvers ==
    { Div(N(b), N(6)) :
        b \in {0, 1, 6, MatchOversLimit * 6 - 1, MatchOversLimit * 6} }

XInnings == {N(i) : i \in 1..4}

VARIABLES
    response,      \* what fetch(url) resolves to (loadModel, line 7)
    mainPc,        \* main.ts: "loading" (awaiting loadModel), "loaded", "error"
    model,         \* main.ts: const model
    states,        \* the GameState argument of each predict call
    callPc,        \* each call's position inside predict
    features,      \* predict: const features
    standardized,  \* predict: const standardized
    logits,        \* predict: const logits
    probs,         \* predict: const probs
    result,        \* predict's return value
    xcalc,         \* two calculateXOver calls: arguments and return values
    status,        \* main.ts: statusEl.textContent
    matchStates,   \* main.ts: adelaideTestData.states
    probPoints,    \* main.ts: const probPoints
    predictCalls,  \* how many times main has called predict
    renderCalls,   \* how many times main has called chart.render
    pagePc,        \* main.js: "building" (the loop over tests), "listening"
    tests,         \* main.js: seriesData.tests
    container,     \* clientWidth and clientHeight of the .chart-svg elements
    charts,        \* main.js: const charts, {chart, data} per test
    toRender,      \* main.js: probsToRender of each test
    drawn,         \* what each chart's last render call drew
    resizeTimeout, \* main.js: let resizeTimeout, the handle of the last timer
                   \* set (0: undefined; setTimeout returns 1, 2, ...)
    build,         \* main.js: "plain" (lines 1-118) or "checkbox" (120-281)
    elapsed,       \* ms since the last 'resize' event, up to ResizeDelay
    timers,        \* the window's pending timeouts: handle and ms left
    checked,       \* main.js: checkbox.checked of each test
    chase,         \* the match state given to the Hybrid Selector
    hybridPc,      \* "select", "simulate", "done", "error"
    trial,         \* the Monte Carlo trial under way
    tally,         \* outcomes of the finished trials
    output,        \* the probabilities returned for the state
    source         \* who computed output: "none", "classifier", "simulator"

\* main's own variables.
mainVars == <<matchStates, probPoints, predictCalls, renderCalls>>

\* The variables of main.js, the page of the whole series.
pageVars == <<pagePc, tests, container, charts, toRender, drawn, resizeTimeout,
              build, elapsed, timers, checked>>

\* The variables of the hybrid prediction of one state.
hybridVars == <<chase, hybridPc, trial, tally, output, source>>

appVars == <<mainVars, pageVars, hybridVars>>

vars == <<response, mainPc, model, states, callPc, features, standardized,
          logits, probs, result, xcalc, status, appVars>>

NoResult == mkResult(<<>>)

\* No calculateXOver call under way.
NoXCalc == [a |-> [innings |-> Zero, over |-> Zero],
            b |-> [innings |-> Zero, over |-> Zero],
            xa |-> Undefined, xb |-> Undefined]

\* main.js has not run.
InitNoPage ==
    /\ pagePc = "building"
    /\ tests = <<>>
    /\ container = [clientWidth |-> 0, clientHeight |-> 0]
    /\ charts = <<>>
    /\ toRender = <<>>
    /\ drawn = <<>>
    /\ resizeTimeout = 0
    /\ build = "plain"
    /\ elapsed = 0
    /\ timers = {}
    /\ checked = <<>>

\* A trial before its first partnership, wickets down so far.
newTrial(wickets) ==
    [wickets |-> wickets, runs |-> 0, overs |-> 0, partnerships |-> 0,
     outcome |-> "none"]

NoTally == [Win |-> 0, Draw |-> 0, Loss |-> 0]

\* No hybrid prediction under way.
InitNoHybrid ==
    /\ chase = [innings |-> 1, wicketsFallen |-> 0, runsRequired |-> 0,
                oversRemaining |-> 0]
    /\ hybridPc = "done"
    /\ trial = newTrial(0)
    /\ tally = NoTally
    /\ output = NoResult
    /\ source = "none"

\* main.ts line 18 has run; main has built nothing yet.
InitApp ==
    /\ status = "Loading model..."
    /\ matchStates = <<>>
    /\ probPoints = <<>>
    /\ predictCalls = 0
    /\ renderCalls = 0
    /\ InitNoPage
    /\ InitNoHybrid

InitWith(rs, first, rest) ==
    /\ InitApp
    /\ xcalc = NoXCalc
    /\ response \in rs
    /\ mainPc = "loading"
    /\ model = NoModel
    /\ \E s \in first, f \in [Calls \ {1} -> rest] :
           states = [c \in Calls |-> IF c = 1 THEN s ELSE f[c]]
    /\ callPc = [c \in Calls |-> "idle"]
    /\ features = [c \in Calls |-> <<>>]
    /\ standardized = [c \in Calls |-> <<>>]
    /\ logits = [c \in Calls |-> <<>>]
    /\ probs = [c \in Calls |-> <<>>]
    /\ result = [c \in Calls |-> NoResult]

\* loadModel line 9: new Error(`Failed to load model: ${response.statusText}`).
FailedToLoad(r) == "Failed to load model: " \o r.statusText

\* main.ts line 60: `Error: ${message}`.
ErrorStatus(message) == "Error: " \o message

\* loadModel, response.ok: the parsed body is returned as it is; main goes on
\* to line 22.
LoadModel ==
    /\ mainPc = "loading"
    /\ response.ok
    /\ model' = response.body
    /\ mainPc' = "loaded"
    /\ status' = "Model loaded successfully"
    /\ UNCHANGED <<response, states, callPc, features, standardized, logits,
                   probs, result,
                   xcalc, appVars>>

\* A loadModel without the response.ok test: the body is parsed and returned
\* whatever the status of the response.
LoadModelFailUnchecked ==
    /\ mainPc = "loading"
    /\ ~response.ok
    /\ model' = response.body
    /\ mainPc' = "loaded"
    /\ status' = "Model loaded successfully"
    /\ UNCHANGED <<response, states, callPc, features, standardized, logits,
                   probs, result, xcalc, appVars>>

\* loadModel, !response.ok: throws; main's catch reports the error.
LoadModelFail ==
    /\ mainPc = "loading"
    /\ ~response.ok
    /\ mainPc' = "error"
    /\ status' = ErrorStatus(FailedToLoad(response))
    /\ UNCHANGED <<response, model, states, callPc, features, standardized,
                   logits, probs, result,
                   xcalc, appVars>>

\* predict line 65 (and a direct call of the exported extractFeatures).
ExtractStep(c) ==
    /\ mainPc = "loaded"
    /\ callPc[c] = "idle"
    /\ features' = [features EXCEPT ![c] = extractFeatures(states[c])]
    /\ callPc' = [callPc EXCEPT ![c] = "features"]
    /\ UNCHANGED <<response, mainPc, model, states, standardized, logits,
                   probs, result,
                   xcalc, status, appVars>>

\* A standardize that normalizes in place, writing into the model's arrays.
StandardizeStepInPlace(c) ==
    /\ callPc[c] = "features"
    /\ standardized' = [standardized EXCEPT ![c] =
           standardize(features[c], model.featureMeans, model.featureStds)]
    /\ model' = [model EXCEPT !.featureMeans =
           standardize(features[c], model.featureMeans, model.featureStds)]
    /\ callPc' = [callPc EXCEPT ![c] = "standardized"]
    /\ UNCHANGED <<response, mainPc, states, features, logits, probs, result,
                   xcalc, status, appVars>>

\* predict line 68.
StandardizeStep(c) ==
    /\ callPc[c] = "features"
    /\ standardized' = [standardized EXCEPT ![c] =
           standardize(features[c], model.featureMeans, model.featureStds)]
    /\ callPc' = [callPc EXCEPT ![c] = "standardized"]
    /\ UNCHANGED <<response, mainPc, model, states, features, logits, probs,
                   result,
                   xcalc, status, appVars>>

\* A logits step that reads one module-level scratch vector (the first
\* call's) instead of the call's own standardized vector.
LogitsStepShared(c) ==
    /\ callPc[c] = "standardized"
    /\ logits' = [logits EXCEPT ![c] = computeLogits(model, standardized[1])]
    /\ callPc' = [callPc EXCEPT ![c] = "logits"]
    /\ UNCHANGED <<response, mainPc, model, states, features, standardized,
                   probs, result, xcalc, status, appVars>>

\* predict lines 71-74.
LogitsStep(c) ==
    /\ callPc[c] = "standardized"
    /\ logits' = [logits EXCEPT ![c] = computeLogits(model, standardized[c])]
    /\ callPc' = [callPc EXCEPT ![c] = "logits"]
    /\ UNCHANGED <<response, mainPc, model, states, features, standardized,
                   probs, result,
                   xcalc, status, appVars>>

\* predict line 77.
SoftmaxStep(c) ==
    /\ callPc[c] = "logits"
    /\ probs' = [probs EXCEPT ![c] = softmax(logits[c])]
    /\ callPc' = [callPc EXCEPT ![c] = "probs"]
    /\ UNCHANGED <<response, mainPc, model, states, features, standardized,
                   logits, result,
                   xcalc, status, appVars>>

\* predict lines 79-83.
ReturnStep(c) ==
    /\ callPc[c] = "probs"
    /\ result' = [result EXCEPT ![c] = mkResult(probs[c])]
    /\ callPc' = [callPc EXCEPT ![c] = "done"]
    /\ UNCHANGED <<response, mainPc, model, states, features, standardized,
                   logits, probs,
                   xcalc, status, appVars>>

PredictStep(c) ==
    \/ ExtractStep(c)
    \/ StandardizeStep(c)
    \/ LogitsStep(c)
    \/ SoftmaxStep(c)
    \/ ReturnStep(c)

\* One predict call over every artifact and GameState.
Init == InitWith(Responses, PredictStates, {CHOOSE s \in CallStates : TRUE})

Next ==
    \/ LoadModel
    \/ LoadModelFail
    \/ PredictStep(1)

Spec == Init /\ [][Next]_vars

\* Several predict calls in progress over the one loaded model, their
\* statements interleaved in every order.
InitCalls == InitWith(CallResponses, CallStates, CallStates)

NextCalls ==
    \/ LoadModel
    \/ LoadModelFail
    \/ \E c \in Calls : PredictStep(c)

SpecCalls == InitCalls /\ [][NextCalls]_vars

\* extractFeatures alone, over the wide set of GameStates.
InitFeatures ==
    InitWith({[ok |-> TRUE, statusText |-> "OK",
               body |-> mkModel(RowsSign, InterceptsZero, MeansZero, StdsOne,
                                PlanFeatureNames)]}, FeatureStates,
             {CHOOSE s \in CallStates : TRUE})

NextFeatures ==
    \/ LoadModel
    \/ ExtractStep(1)

SpecFeatures == InitFeatures /\ [][NextFeatures]_vars

\* calculateXOver applied to the first and to the second argument pair.
CalcXOverA ==
    /\ xcalc.xa = Undefined
    /\ xcalc' = [xcalc EXCEPT !.xa = calculateXOver(xcalc.a.innings, xcalc.a.over)]
    /\ UNCHANGED <<response, mainPc, model, states, callPc, features,
                   standardized, logits, probs, result, status,
                   appVars>>

CalcXOverB ==
    /\ xcalc.xb = Undefined
    /\ xcalc' = [xcalc EXCEPT !.xb = calculateXOver(xcalc.b.innings, xcalc.b.over)]
    /\ UNCHANGED <<response, mainPc, model, states, callPc, features,
                   standardized, logits, probs, result, status,
                   appVars>>

InitXOver ==
    /\ InitApp
    /\ response = [ok |-> FALSE, statusText |-> "Not Found", body |-> NoModel]
    /\ mainPc = "loading"
    /\ model = NoModel
    /\ states = [c \in Calls |-> CHOOSE s \in CallStates : TRUE]
    /\ callPc = [c \in Calls |-> "idle"]
    /\ features = [c \in Calls |-> <<>>]
    /\ standardized = [c \in Calls |-> <<>>]
    /\ logits = [c \in Calls |-> <<>>]
    /\ probs = [c \in Calls |-> <<>>]
    /\ result = [c \in Calls |-> NoResult]
    /\ \E i \in XInnings, j \in XInnings, oa \in XOvers, ob \in XOvers :
           xcalc = [a |-> [innings |-> i, over |-> oa],
                    b |-> [innings |-> j, over |-> ob],
                    xa |-> Undefined, xb |-> Undefined]

NextXOver ==
    \/ CalcXOverA
    \/ CalcXOverB

SpecXOver == InitXOver /\ [][NextXOver]_vars

\* ------------------------------------------------------------ main.ts main

\* Most match states in adelaideTestData.states.
MaxStates == 3

\* The states of the match data: the first two innings, at the start of the
\* innings, after MaxBalls balls and at the overs limit.
DataStates ==
    { mkState(N(i), N(MaxRuns), N(3), N(b), N(0), Undefined, N(MaxBalls), FALSE) :
        i \in {1, 2}, b \in {0, MaxBalls, MatchOversLimit * 6} }

\* adelaideTestData.states: any list of them, chronological or not.
StateLists == UNION { [1..n -> DataStates] : n \in 0..MaxStates }

MainResponses ==
    { [ok |-> TRUE, statusText |-> "OK",
       body |-> mkModel(RowsSign, InterceptsSample, MeansSample, StdsSample,
                        DocFeatureNames)],
      [ok |-> FALSE, statusText |-> "Not Found", body |-> NoModel] }

\* The callback with over = state.ballsBowled, the division by 6 forgotten.
toProbPointRawBalls(m, state) ==
    LET p == predict(m, state)
    IN  [xOver |-> calculateXOver(state.innings, state.ballsBowled),
         innings |-> state.innings,
         over |-> state.ballsBowled,
         pWin |-> p.pWin, pDraw |-> p.pDraw, pLoss |-> p.pLoss]

\* main.ts lines 30-40: the callback of states.map.
toProbPoint(m, state) ==
    LET p == predict(m, state)
    IN  [xOver |-> calculateXOver(state.innings, Div(state.ballsBowled, N(6))),
         innings |-> state.innings,
         over |-> Div(state.ballsBowled, N(6)),
         pWin |-> p.pWin, pDraw |-> p.pDraw, pLoss |-> p.pLoss]

\* main.ts lines 25-43: the match states are read and mapped to ProbPoints,
\* one predict call per state.
ComputeProbabilities ==
    /\ mainPc = "loaded"
    /\ probPoints' = [i \in 1..Len(matchStates) |-> toProbPoint(model, matchStates[i])]
    /\ predictCalls' = predictCalls + Len(matchStates)
    /\ status' = "Rendering worm chart..."
    /\ mainPc' = "computed"
    /\ UNCHANGED <<response, model, states, callPc, features, standardized,
                   logits, probs, result, xcalc, matchStates, renderCalls,
                   pageVars, hybridVars>>

\* main.ts lines 45-50: the chart is made in the page's #chart element and
\* rendered.
RenderChart ==
    /\ mainPc = "computed"
    /\ renderCalls' = renderCalls + 1
    /\ status' = "Adelaide Test (points)"
    /\ mainPc' = "done"
    /\ UNCHANGED <<response, model, states, callPc, features, standardized,
                   logits, probs, result, xcalc, matchStates, probPoints,
                   predictCalls, pageVars, hybridVars>>

InitMain ==
    /\ status = "Loading model..."
    /\ matchStates \in StateLists
    /\ probPoints = <<>>
    /\ predictCalls = 0
    /\ renderCalls = 0
    /\ InitNoPage
    /\ InitNoHybrid
    /\ xcalc = NoXCalc
    /\ response \in MainResponses
    /\ mainPc = "loading"
    /\ model = NoModel
    /\ states = [c \in Calls |-> CHOOSE s \in CallStates : TRUE]
    /\ callPc = [c \in Calls |-> "idle"]
    /\ features = [c \in Calls |-> <<>>]
    /\ standardized = [c \in Calls |-> <<>>]
    /\ logits = [c \in Calls |-> <<>>]
    /\ probs = [c \in Calls |-> <<>>]
    /\ result = [c \in Calls |-> NoResult]

NextMain ==
    \/ LoadModel
    \/ LoadModelFail
    \/ ComputeProbabilities
    \/ RenderChart

SpecMain == InitMain /\ [][NextMain]_vars

\* ------------------------------------------------------------ main.js main

\* Most tests in seriesData.tests.
MaxTests == 2

\* Most 'resize' events of the window.
MaxResizes == 2

\* The step of the clock, in ms.
TickMs == 125

\* main.js line 108: window.setTimeout(..., 250).
ResizeDelay == 250

\* main.js line 62: height: chartContainer?.clientHeight || 200.
DefaultHeight == 200

\* worm.ts line 41: the default margin.
DefaultMargin == [top |-> 20, right |-> 120, bottom |-> 50, left |-> 50]

\* Sizes of a .chart-svg element: before layout gives it a height, on a wide
\* window and on a narrow one.
Sizes ==
    { [clientWidth |-> 800, clientHeight |-> 0],
      [clientWidth |-> 800, clientHeight |-> 250],
      [clientWidth |-> 400, clientHeight |-> 250] }

Outcomes == {"Win", "Draw", "Loss"}

\* An entry of test.probabilities.  The scorecard-only model gives an entry
\* of play other probabilities than the full model (here pWin and pLoss
\* change places).
mkProb(score, x, w, d, l) ==
    [score |-> score, xOver |-> x, innings |-> N(4), over |-> x,
     pWin |-> w, pDraw |-> d, pLoss |-> l,
     pWin_scorecard |-> IF score = "Match Complete" THEN w ELSE l,
     pDraw_scorecard |-> d,
     pLoss_scorecard |-> IF score = "Match Complete" THEN l ELSE w]

\* An entry the model computed for a state of play; the last one closes the
\* bucket of overs in which the match ended (matchEndOver 35).
RealProbs ==
    { mkProb("123/4", N(10), Mk(1, 2), Mk(1, 4), Mk(1, 4)),
      mkProb("177/1", N(30), Mk(3, 4), Mk(1, 4), Zero),
      mkProb("205/5", N(37), Mk(1, 4), Mk(1, 4), Mk(1, 2)) }

\* The terminal rule of the series builder: a 'Match Complete' entry carries
\* probability 1 for the result of the match and 0 for the other two.
MatchCompletePoint(outcome, x) ==
    mkProb("Match Complete", x,
           IF outcome = "Win" THEN One ELSE Zero,
           IF outcome = "Draw" THEN One ELSE Zero,
           IF outcome = "Loss" THEN One ELSE Zero)

\* test.probabilities of a test of the given result: up to 3 entries, in any
\* order.
ProbLists(outcome) ==
    LET pool == RealProbs \cup {MatchCompletePoint(outcome, N(x)) : x \in {40, 45}}
    IN  UNION { [1..n -> pool] : n \in 0..3 }

\* A test of seriesData.tests.  outcome is the result test.result words.
TestData ==
    UNION { { [probabilities |-> ps, matchEndOver |-> e, outcome |-> o,
               wicketFalls |-> {}] :
                ps \in ProbLists(o), e \in {Undefined, N(35)} } :
            o \in Outcomes }

\* A finished test: two entries of play, then the match is complete.
SampleTest ==
    [probabilities |->
         << mkProb("123/4", N(10), Mk(1, 2), Mk(1, 4), Mk(1, 4)),
            mkProb("177/1", N(30), Mk(3, 4), Mk(1, 4), Zero),
            MatchCompletePoint("Win", N(40)) >>,
     matchEndOver |-> N(35), outcome |-> "Win", wicketFalls |-> {}]

\* test.probabilities.filter(keep), in order.
RECURSIVE filter(_, _)
filter(ps, complete) ==
    IF ps = <<>> THEN <<>>
    ELSE IF (Head(ps).score = "Match Complete") = complete
         THEN <<Head(ps)>> \o filter(Tail(ps), complete)
         ELSE filter(Tail(ps), complete)

\* The series with the transition point copied from the last entry of play
\* instead of the first 'Match Complete' entry.
probsToRenderFromLastReal(test) ==
    LET realProbabilities == filter(test.probabilities, FALSE)
        matchCompletePoints == filter(test.probabilities, TRUE)
    IN  IF test.matchEndOver # Undefined /\ Len(matchCompletePoints) > 0
        THEN LET finalProbs ==
                     IF Len(realProbabilities) > 0
                     THEN realProbabilities[Len(realProbabilities)]
                     ELSE matchCompletePoints[1]
             IN  realProbabilities
                     \o <<[finalProbs EXCEPT !.score = "Match Complete",
                                             !.xOver = test.matchEndOver]>>
                     \o matchCompletePoints
        ELSE realProbabilities

\* main.js lines 68-83: the entries of play, then, for a complete match, the
\* first 'Match Complete' entry moved to matchEndOver and every 'Match
\* Complete' entry.
probsToRender(test) ==
    LET realProbabilities == filter(test.probabilities, FALSE)
        matchCompletePoints == filter(test.probabilities, TRUE)
    IN  IF test.matchEndOver # Undefined /\ Len(matchCompletePoints) > 0
        THEN LET finalProbs == matchCompletePoints[1]
             IN  realProbabilities
                     \o <<[finalProbs EXCEPT !.xOver = test.matchEndOver]>>
                     \o matchCompletePoints
        ELSE realProbabilities

\* main.js lines 84-91: the ProbPoint of an entry.
probPointOf(p) ==
    [xOver |-> p.xOver, innings |-> p.innings, over |-> p.over,
     pWin |-> p.pWin, pDraw |-> p.pDraw, pLoss |-> p.pLoss]

\* worm.ts lines 40-56: new WormChart(selector, {height, maxOvers, ...}) in a
\* container el.  No width option is given.
newWormChart(el, height, test) ==
    [width |-> el.clientWidth,
     height |-> height,
     chartWidth |-> el.clientWidth - DefaultMargin.left - DefaultMargin.right,
     chartHeight |-> height - DefaultMargin.top - DefaultMargin.bottom,
     maxOvers |-> MatchOversLimit,
     wicketFalls |-> test.wicketFalls,
     matchEndOver |-> test.matchEndOver]

\* worm.ts lines 75-80: xScale, linear from [0, maxOvers] (main.js always
\* gives maxOvers) to [0, chartWidth]: x / maxOvers * chartWidth.  (Here and
\* below a value is bound in a one-element set where that makes TLC compute
\* it once.)
xScale(chart, x) ==
    CHOOSE px \in { Mul(Div(v, N(chart.maxOvers)), N(chart.chartWidth)) :
                     v \in {x} } : TRUE

\* worm.ts line 348: xScale.invert, px / chartWidth * maxOvers.
xInvert(chart, px) ==
    CHOOSE x \in { Mul(Div(v, N(chart.chartWidth)), N(chart.maxOvers)) :
                    v \in {px} } : TRUE

\* worm.ts lines 82-84: yScale, linear from [0, 1] to [chartHeight, 0]:
\* chartHeight + p * (0 - chartHeight).
yScale(chart, p) ==
    CHOOSE y \in { Add(N(chart.chartHeight), m) :
                    m \in { Mul(v, N(0 - chart.chartHeight)) : v \in {p} } } :
        TRUE

\* The three areas with the Loss area's lower edge taken from pLoss.
areasLossFromPLoss(chart, data) ==
    LET x(i) == xScale(chart, data[i].xOver)
        RECURSIVE win(_), draw(_), loss(_)
        win(i) ==
            IF i > Len(data) THEN <<>>
            ELSE <<[x |-> x(i),
                    y0 |-> N(chart.chartHeight),
                    y1 |-> yScale(chart, data[i].pWin)]>> \o win(i + 1)
        draw(i) ==
            IF i > Len(data) THEN <<>>
            ELSE <<[x |-> x(i),
                    y0 |-> yScale(chart, data[i].pWin),
                    y1 |-> yScale(chart, Add(data[i].pWin, data[i].pDraw))]>>
                     \o draw(i + 1)
        loss(i) ==
            IF i > Len(data) THEN <<>>
            ELSE <<[x |-> x(i),
                    y0 |-> yScale(chart, Sub(One, data[i].pLoss)),
                    y1 |-> Zero]>> \o loss(i + 1)
    IN  << [kind |-> "area-win", shape |-> win(1)],
           [kind |-> "area-draw", shape |-> draw(1)],
           [kind |-> "area-loss", shape |-> loss(1)] >>

\* worm.ts lines 86-126: the paths of areaWin, areaDraw and areaLoss; each
\* shape holds x, y0 and y1 of every data point, joined by curveStepAfter.
areas(chart, data) ==
    LET x(i) == xScale(chart, data[i].xOver)
        RECURSIVE win(_), draw(_), loss(_)
        win(i) ==
            IF i > Len(data) THEN <<>>
            ELSE <<[x |-> x(i),
                    y0 |-> N(chart.chartHeight),
                    y1 |-> yScale(chart, data[i].pWin)]>> \o win(i + 1)
        draw(i) ==
            IF i > Len(data) THEN <<>>
            ELSE <<[x |-> x(i),
                    y0 |-> yScale(chart, data[i].pWin),
                    y1 |-> yScale(chart, Add(data[i].pWin, data[i].pDraw))]>>
                     \o draw(i + 1)
        loss(i) ==
            IF i > Len(data) THEN <<>>
            ELSE <<[x |-> x(i),
                    y0 |-> yScale(chart, Add(data[i].pWin, data[i].pDraw)),
                    y1 |-> Zero]>> \o loss(i + 1)
    IN  << [kind |-> "area-win", shape |-> win(1)],
           [kind |-> "area-draw", shape |-> draw(1)],
           [kind |-> "area-loss", shape |-> loss(1)] >>

\* d3.curveStepAfter (worm.ts lines 92, 98, 104): the y of a point holds
\* from its x to the x of the next point, where it steps.  The point whose
\* y the curve of shape has at x (0 left of the first point).
curveStepAfter(shape, x) ==
    LET at == {i \in 1..Len(shape) : Le(shape[i].x, x)}
    IN  IF at = {} THEN 0 ELSE CHOOSE i \in at : \A j \in at : j <= i

\* worm.ts lines 140-155 and 447-468: the wickets of an innings that fell
\* from start - tolerance to end + tolerance, as the wickets count of the
\* last fall in that range less the wickets count of the last fall before
\* it; 0 when no fall is in the range.
wicketsFell(falls, innings, start, end, tolerance) ==
    LET last(S) == CHOOSE w \in S : \A v \in S : Le(v.xOver, w.xOver)
        inRange == {w \in falls : /\ w.innings = innings
                                  /\ Le(Sub(start, tolerance), w.xOver)
                                  /\ Le(w.xOver, Add(end, tolerance))}
        before == {w \in falls : /\ w.innings = innings
                                 /\ Lt(w.xOver, Sub(start, tolerance))}
        prevWickets == IF before = {} THEN 0 ELSE last(before).wickets
    IN  IF inRange = {} THEN 0 ELSE last(inRange).wickets - prevWickets

\* worm.ts lines 130-183: the wicket lines, one for each bucket (from the
\* previous data point, or 0, to a data point) in which wickets fell, at
\* the middle of the bucket, 2 px wide for each wicket.  wicketsByBucket is
\* keyed by innings and end of bucket.
wicketMarkers(chart, data) ==
    LET start(i) == IF i > 1 THEN data[i - 1].xOver ELSE Zero
        total(i) == wicketsFell(chart.wicketFalls, data[i].innings,
                                start(i), data[i].xOver, Zero)
        key(i) == <<data[i].innings, data[i].xOver>>
        set == {i \in 1..Len(data) : total(i) > 0}
        value(i) == CHOOSE j \in set :
                        /\ key(j) = key(i)
                        /\ \A k \in set : key(k) = key(i) => k <= j
        line(i) == [kind |-> "wicket-line",
                    innings |-> data[i].innings,
                    bucketEnd |-> data[i].xOver,
                    x |-> xScale(chart, Div(Add(start(value(i)),
                                                data[value(i)].xOver), N(2))),
                    strokeWidth |-> total(value(i)) * 2]
        drawn_(i) == /\ i \in set
                     /\ \A k \in set : key(k) = key(i) => i <= k
                     /\ Le(Zero, line(i).x)
                     /\ Le(line(i).x, N(chart.chartWidth))
        RECURSIVE lines(_)
        lines(i) == IF i > Len(data) THEN <<>>
                    ELSE IF drawn_(i) THEN <<line(i)>> \o lines(i + 1)
                    ELSE lines(i + 1)
    IN  lines(1)

\* worm.ts line 344: d3.bisector(d => d.xOver).right, a binary search for
\* the number of entries of data, from lo to hi, that x is not left of.
RECURSIVE bisect(_, _, _, _)
bisect(data, x, lo, hi) ==
    IF lo < hi
    THEN LET mid == (lo + hi) \div 2
         IN  IF Le(data[mid + 1].xOver, x) THEN bisect(data, x, mid + 1, hi)
             ELSE bisect(data, x, lo, mid)
    ELSE lo

\* Nothing in the hover-highlight and hover-tooltip groups.
NoHover == [shown |-> FALSE]

\* Nothing drawn: the empty svg of the constructor (worm.ts lines 57-66).
NoDrawing ==
    [chartWidth |-> 0, chartHeight |-> 0, data |-> <<>>, elements |-> <<>>,
     hover |-> NoHover]

\* What render appends to the svg (worm.ts lines 110-340) for data.  The
\* tests have no inningsBoundaries.
elementsOf(chart, data) ==
    LET next == {i \in 1..Len(data) : Gt(data[i].xOver, chart.matchEndOver)}
        first == CHOOSE i \in next : \A j \in next : i <= j
        mid == IF next = {} THEN chart.matchEndOver
               ELSE Div(Add(chart.matchEndOver, data[first].xOver), N(2))
        matchEnd == IF chart.matchEndOver = Undefined THEN <<>>
                    ELSE CHOOSE line \in
                             { IF Le(Zero, xPos) /\ Le(xPos, N(chart.chartWidth))
                               THEN <<[kind |-> "match-end", x |-> xPos]>>
                               ELSE <<>> : xPos \in {xScale(chart, mid)} } :
                             TRUE
    IN  areas(chart, data)
            \o wicketMarkers(chart, data)
            \o <<[kind |-> "x-axis"], [kind |-> "y-axis"],
                 [kind |-> "x-label"], [kind |-> "y-label"],
                 [kind |-> "legend"]>>
            \o matchEnd
            \o <<[kind |-> "hover-highlight"], [kind |-> "hover-tooltip"],
                 [kind |-> "overlay"]>>

\* render without the removal of what the svg holds.
renderAppending(chart, data, el, before) ==
    IF Len(data) = 0 THEN before
    ELSE [chartWidth |-> chart.chartWidth,
          chartHeight |-> chart.chartHeight,
          data |-> data,
          elements |-> before.elements \o elementsOf(chart, data),
          hover |-> NoHover]

\* worm.ts lines 69-340: chart.render(data) in container el.  The ranges of
\* the scales, and every element drawn, use this.chartWidth and
\* this.chartHeight; empty data leaves the drawing as it was; other data
\* replace everything in the svg (line 107).
render(chart, data, el, before) ==
    IF Len(data) = 0 THEN before
    ELSE [chartWidth |-> chart.chartWidth,
          chartHeight |-> chart.chartHeight,
          data |-> data,
          elements |-> elementsOf(chart, data),
          hover |-> NoHover]

\* main.js lines 232-241: getProbPoints(useScorecard) over probsToRender.
getProbPoints(series, useScorecard) ==
    [i \in 1..Len(series) |->
        [xOver |-> series[i].xOver, innings |-> series[i].innings,
         over |-> series[i].over,
         pWin |-> IF useScorecard THEN series[i].pWin_scorecard
                  ELSE series[i].pWin,
         pDraw |-> IF useScorecard THEN series[i].pDraw_scorecard
                   ELSE series[i].pDraw,
         pLoss |-> IF useScorecard THEN series[i].pLoss_scorecard
                   ELSE series[i].pLoss]]

\* main.js lines 33-96 and 155-258: one turn of the loop over
\* seriesData.tests.  The checkbox build makes a checked checkbox and
\* renders getProbPoints(true).
CreateChart ==
    /\ pagePc = "building"
    /\ Len(charts) < Len(tests)
    /\ LET test == tests[Len(charts) + 1]
           height == IF container.clientHeight # 0 THEN container.clientHeight
                     ELSE DefaultHeight
           chart == newWormChart(container, height, test)
           series == probsToRender(test)
           data == IF build = "checkbox" THEN getProbPoints(series, TRUE)
                   ELSE [i \in 1..Len(series) |-> probPointOf(series[i])]
       IN  /\ toRender' = Append(toRender, series)
           /\ drawn' = Append(drawn, render(chart, data, container, NoDrawing))
           /\ charts' = Append(charts, [chart |-> chart, data |-> data])
    /\ checked' = IF build = "checkbox" THEN Append(checked, TRUE) ELSE checked
    /\ UNCHANGED <<response, mainPc, model, states, callPc, features,
                   standardized, logits, probs, result, xcalc, status,
                   mainVars, pagePc, tests, container, resizeTimeout, build,
                   elapsed, timers, hybridVars>>

\* main.js lines 97-109 and 259-272: the loop is over; the status is set and
\* the resize listener added.
AddResizeListener ==
    /\ pagePc = "building"
    /\ Len(charts) = Len(tests)
    /\ status' = "The Ashes - tests loaded"
    /\ pagePc' = "listening"
    /\ UNCHANGED <<response, mainPc, model, states, callPc, features,
                   standardized, logits, probs, result, xcalc, mainVars,
                   tests, container, charts, toRender, drawn, resizeTimeout,
                   build, elapsed, timers, checked, hybridVars>>

\* The 'resize' listener without its clearTimeout.
WindowResizeNoClear ==
    /\ pagePc = "listening"
    /\ resizeTimeout < MaxResizes
    /\ \E s \in Sizes :
           /\ s.clientHeight # 0
           /\ s # container
           /\ container' = s
    /\ timers' = timers \cup {[handle |-> resizeTimeout + 1, left |-> ResizeDelay]}
    /\ resizeTimeout' = resizeTimeout + 1
    /\ elapsed' = 0
    /\ UNCHANGED <<response, mainPc, model, states, callPc, features,
                   standardized, logits, probs, result, xcalc, status,
                   mainVars, pagePc, tests, charts, toRender, drawn, build,
                   checked, hybridVars>>

\* The window is resized, the containers get a new size, and the 'resize'
\* listener runs (lines 100-108): clearTimeout(resizeTimeout), then
\* resizeTimeout = window.setTimeout(..., 250), a new handle.
WindowResize ==
    /\ pagePc = "listening"
    /\ resizeTimeout < MaxResizes
    /\ \E s \in Sizes :
           /\ s.clientHeight # 0
           /\ s # container
           /\ container' = s
    /\ timers' = {t \in timers : t.handle # resizeTimeout}
                     \cup {[handle |-> resizeTimeout + 1, left |-> ResizeDelay]}
    /\ resizeTimeout' = resizeTimeout + 1
    /\ elapsed' = 0
    /\ UNCHANGED <<response, mainPc, model, states, callPc, features,
                   standardized, logits, probs, result, xcalc, status,
                   mainVars, pagePc, tests, charts, toRender, drawn, build,
                   checked, hybridVars>>

\* TickMs go by with no event: every pending timeout has that much less to
\* wait.
Tick ==
    /\ pagePc = "listening"
    /\ elapsed < ResizeDelay \/ \E t \in timers : t.left > 0
    /\ elapsed' = IF elapsed + TickMs < ResizeDelay THEN elapsed + TickMs
                  ELSE ResizeDelay
    /\ timers' = { [t EXCEPT !.left = IF t.left > TickMs THEN t.left - TickMs
                                      ELSE 0] : t \in timers }
    /\ UNCHANGED <<response, mainPc, model, states, callPc, features,
                   standardized, logits, probs, result, xcalc, status,
                   mainVars, pagePc, tests, container, charts, toRender,
                   drawn, resizeTimeout, build, checked, hybridVars>>

\* The window takes a timeout that is due off its list, to run its callback.
TimerFires ==
    \E t \in timers :
        /\ t.left = 0
        /\ timers' = timers \ {t}

\* A timeout of the resize listener is due and its callback runs (lines
\* 103-108): every chart renders its stored data again.
ResizeTimeout ==
    /\ TimerFires
    /\ drawn' = [i \in DOMAIN charts |->
                     render(charts[i].chart, charts[i].data, container, drawn[i])]
    /\ UNCHANGED <<response, mainPc, model, states, callPc, features,
                   standardized, logits, probs, result, xcalc, status,
                   mainVars, pagePc, tests, container, charts, toRender,
                   resizeTimeout, build, elapsed, checked, hybridVars>>

\* The 'change' listener without the update of charts[chartIndex].data.
CheckboxChangeUnstored(c) ==
    /\ pagePc = "listening"
    /\ build = "checkbox"
    /\ c \in DOMAIN charts
    /\ LET isScorecard == ~checked[c]
           newProbPoints == getProbPoints(toRender[c], isScorecard)
       IN  /\ checked' = [checked EXCEPT ![c] = isScorecard]
           /\ drawn' = [drawn EXCEPT ![c] =
                            render(charts[c].chart, newProbPoints, container, @)]
    /\ UNCHANGED <<response, mainPc, model, states, callPc, features,
                   standardized, logits, probs, result, xcalc, status,
                   mainVars, pagePc, tests, container, charts, toRender,
                   resizeTimeout, build, elapsed, timers, hybridVars>>

\* The checkbox of test c is clicked and its 'change' listener runs (main.js
\* lines 248-257): the chart renders getProbPoints(checked) and charts keeps
\* that series for the resize listener.
CheckboxChange(c) ==
    /\ pagePc = "listening"
    /\ build = "checkbox"
    /\ c \in DOMAIN charts
    /\ LET isScorecard == ~checked[c]
           newProbPoints == getProbPoints(toRender[c], isScorecard)
       IN  /\ checked' = [checked EXCEPT ![c] = isScorecard]
           /\ drawn' = [drawn EXCEPT ![c] =
                            render(charts[c].chart, newProbPoints, container, @)]
           /\ charts' = [charts EXCEPT ![c].data = newProbPoints]
    /\ UNCHANGED <<response, mainPc, model, states, callPc, features,
                   standardized, logits, probs, result, xcalc, status,
                   mainVars, pagePc, tests, container, toRender,
                   resizeTimeout, build, elapsed, timers, hybridVars>>

\* The mouse moves over the overlay of chart c, mouseX px from its left
\* edge, and the 'mousemove' listener of the last render runs (worm.ts
\* lines 346-537): the highlight and the tooltip of the step under the mouse.
MouseMove(c, mouseX) ==
    /\ pagePc = "listening"
    /\ c \in DOMAIN drawn
    /\ Len(drawn[c].elements) > 0
    /\ LET chart == charts[c].chart
           data == drawn[c].data
           n == Len(data)
           xOver == xInvert(chart, N(mouseX))
           index == bisect(data, xOver, 0, n)
           dataPoint == IF index >= n THEN data[n]
                        ELSE IF index = 0 THEN data[1]
                        ELSE data[index + 1]
           hasPrev == IF index >= n THEN n > 1 ELSE index > 0
           prevPoint == IF index >= n THEN data[n - 1] ELSE data[index]
           isAfterMatchEnd == /\ chart.matchEndOver # Undefined
                              /\ Le(chart.matchEndOver, xOver)
           stepStart == IF isAfterMatchEnd
                        THEN xScale(chart, chart.matchEndOver)
                        ELSE IF index >= n THEN xScale(chart, dataPoint.xOver)
                        ELSE IF hasPrev THEN xScale(chart, prevPoint.xOver)
                        ELSE Zero
           stepEnd == IF isAfterMatchEnd \/ index >= n
                      THEN N(chart.chartWidth)
                      ELSE xScale(chart, dataPoint.xOver)
           totalWicketsFell ==
               IF isAfterMatchEnd THEN 0
               ELSE wicketsFell(chart.wicketFalls, dataPoint.innings,
                                xInvert(chart, stepStart),
                                xInvert(chart, stepEnd), Mk(1, 10))
       IN  drawn' = [drawn EXCEPT ![c].hover =
                        [shown |-> TRUE, mouseX |-> mouseX, index |-> index,
                         dataPoint |-> dataPoint,
                         stepStart |-> stepStart, stepEnd |-> stepEnd,
                         win |-> yScale(chart, dataPoint.pWin),
                         draw |-> yScale(chart, Add(dataPoint.pWin,
                                                    dataPoint.pDraw)),
                         wickets |-> IF totalWicketsFell > 0
                                     THEN totalWicketsFell ELSE 0]]
    /\ UNCHANGED <<response, mainPc, model, states, callPc, features,
                   standardized, logits, probs, result, xcalc, status,
                   mainVars, pagePc, tests, container, charts, toRender,
                   resizeTimeout, build, elapsed, timers, checked,
                   hybridVars>>

\* The mouse leaves the overlay of chart c (worm.ts lines 539-542).
MouseLeave(c) ==
    /\ pagePc = "listening"
    /\ c \in DOMAIN drawn
    /\ drawn[c].hover.shown
    /\ drawn' = [drawn EXCEPT ![c].hover = NoHover]
    /\ UNCHANGED <<response, mainPc, model, states, callPc, features,
                   standardized, logits, probs, result, xcalc, status,
                   mainVars, pagePc, tests, container, charts, toRender,
                   resizeTimeout, build, elapsed, timers, checked,
                   hybridVars>>

\* main.js is about to loop over the tests of a series whose first test is
\* one of firsts, in build b; no 'resize' event in the last ResizeDelay ms.
InitPageOf(b, firsts) ==
    /\ status = "Loading Ashes series data..."
    /\ matchStates = <<>>
    /\ probPoints = <<>>
    /\ predictCalls = 0
    /\ renderCalls = 0
    /\ pagePc = "building"
    /\ \E first \in firsts, n \in 1..MaxTests :
           tests = [i \in 1..n |-> IF i = 1 THEN first ELSE SampleTest]
    /\ container \in Sizes
    /\ charts = <<>>
    /\ toRender = <<>>
    /\ drawn = <<>>
    /\ resizeTimeout = 0
    /\ build = b
    /\ elapsed = ResizeDelay
    /\ timers = {}
    /\ checked = <<>>
    /\ InitNoHybrid
    /\ xcalc = NoXCalc
    /\ response = [ok |-> FALSE, statusText |-> "Not Found", body |-> NoModel]
    /\ mainPc = "loading"
    /\ model = NoModel
    /\ states = [c \in Calls |-> CHOOSE s \in CallStates : TRUE]
    /\ callPc = [c \in Calls |-> "idle"]
    /\ features = [c \in Calls |-> <<>>]
    /\ standardized = [c \in Calls |-> <<>>]
    /\ logits = [c \in Calls |-> <<>>]
    /\ probs = [c \in Calls |-> <<>>]
    /\ result = [c \in Calls |-> NoResult]

InitPage == InitPageOf("plain", TestData)

NextPage ==
    \/ CreateChart
    \/ AddResizeListener
    \/ WindowResize
    \/ Tick
    \/ ResizeTimeout

SpecPage == InitPage /\ [][NextPage]_vars

\* The checkbox build on finished tests, the first one with or without its
\* probabilities.
InitCheckbox ==
    InitPageOf("checkbox",
               {SampleTest, [SampleTest EXCEPT !.probabilities = <<>>]})

NextCheckbox ==
    \/ NextPage
    \/ \E c \in 1..MaxTests : CheckboxChange(c)

\* Time goes by, and the browser runs the callback of a timeout that is due
\* (the steps of TimerFires are those of ResizeTimeout).
SpecCheckbox ==
    InitCheckbox /\ [][NextCheckbox]_vars /\ WF_vars(Tick) /\ WF_timers(TimerFires)

\* Where the mouse is put, in px from the left edge of the overlay: on a
\* chart 630 px wide these are overs 5, 10, 15, 20, 25, 35 and 45.
MouseXs == {7, 14, 21, 28, 35, 49, 63}

\* Tests for one chart: entries at overs 10, 20 and 30 of the fourth
\* innings (the second one with probabilities rounded to sum below 1), with
\* or without the end of the match, and wickets falling inside a bucket, at
\* the end of one (over 20) and just after it, counted 1, 2, ... in order.
WormTests ==
    LET p10 == mkProb("50/1", N(10), Mk(1, 2), Mk(1, 4), Mk(1, 4))
        p20 == mkProb("90/2", N(20), Mk(1, 3), Mk(1, 3), Mk(1, 4))
        p30 == mkProb("131/4", N(30), Mk(3, 4), Mk(1, 4), Zero)
        fallOvers == {N(12), N(20), Mk(401, 20), N(25)}
        falls(S) == { [innings |-> N(4), xOver |-> x,
                       wickets |-> Cardinality({y \in S : Le(y, x)})] :
                      x \in S }
    IN  { [probabilities |-> ps, matchEndOver |-> e, outcome |-> "Win",
           wicketFalls |-> falls(S)] :
            ps \in { <<>>, <<p10>>, <<p10, p20, p30>>,
                     <<p10, p20, p30, MatchCompletePoint("Win", N(40))>> },
            e \in {Undefined, N(35)},
            S \in SUBSET fallOvers }

\* One chart on the page, and the mouse over it.
InitChart == InitPageOf("plain", WormTests) /\ Len(tests) = 1

NextChart ==
    \/ CreateChart
    \/ AddResizeListener
    \/ \E c \in 1..MaxTests, mouseX \in MouseXs : MouseMove(c, mouseX)
    \/ \E c \in 1..MaxTests : MouseLeave(c)

SpecChart == InitChart /\ [][NextChart]_vars

\* ------------------------------------------------- hybrid prediction model

\* Trials of one simulation.
NTrials == 2

\* "4th innings".
ChaseInnings == 4

\* "<=3 wickets remaining".
CloseWickets == 3

\* "<=80 runs needed".
CloseRuns == 80

\* ">30 overs remaining".
AmpleOvers == 30

\* Wickets of an innings: the 10th wicket ends it.
InningsWickets == 10

wicketsRemaining(s) == InningsWickets - s.wicketsFallen

\* The trigger with 30 overs remaining counted as enough.
triggerFromThirtyOvers(s) ==
    /\ s.innings = ChaseInnings
    /\ (wicketsRemaining(s) <= CloseWickets \/ s.runsRequired <= CloseRuns)
    /\ s.oversRemaining >= AmpleOvers

\* The Hybrid Selector's trigger: 4th innings AND (<=3 wickets remaining OR
\* <=80 runs needed) AND >30 overs remaining.
trigger(s) ==
    /\ s.innings = ChaseInnings
    /\ (wicketsRemaining(s) <= CloseWickets \/ s.runsRequired <= CloseRuns)
    /\ s.oversRemaining > AmpleOvers

\* The classifier's distribution for a state (quarters, which no fraction of
\* NTrials trials equals).
classify(s) ==
    IF s.runsRequired <= CloseRuns
    THEN [pWin |-> Mk(3, 4), pDraw |-> Mk(1, 4), pLoss |-> Zero]
    ELSE [pWin |-> Mk(1, 4), pDraw |-> Mk(1, 4), pLoss |-> Mk(1, 2)]

\* The states given to the selector: third and fourth innings, around each
\* limit of the trigger, with every wicket down included.
ChaseStates ==
    { [innings |-> i, wicketsFallen |-> w, runsRequired |-> r,
       oversRemaining |-> o] :
        i \in {3, ChaseInnings},
        w \in {0, InningsWickets - CloseWickets - 1,
               InningsWickets - CloseWickets, InningsWickets - 1,
               InningsWickets},
        r \in {CloseRuns - 15, CloseRuns, CloseRuns + 1},
        o \in {AmpleOvers, AmpleOvers + 1} }

\* Runs and overs a sampled partnership can take.
PartnershipRuns == {0, 40, 90}

PartnershipOvers == {1, 20, 40}

\* How a trial stands, with the fall of the last wicket never ending it.
trialOutcomeWithoutLoss(s, runs, wickets, overs) ==
    IF runs >= s.runsRequired THEN "Win"
    ELSE IF overs >= s.oversRemaining THEN "Draw"
    ELSE "none"

\* How a trial stands after a partnership: Win once the runs required are
\* scored, Loss when the 10th wicket is gone with runs still required, Draw
\* when the overs are gone with runs still required and wickets in hand.
trialOutcome(s, runs, wickets, overs) ==
    IF runs >= s.runsRequired THEN "Win"
    ELSE IF wickets >= InningsWickets THEN "Loss"
    ELSE IF overs >= s.oversRemaining THEN "Draw"
    ELSE "none"

\* The fractions of the tally averaged with the classifier's distribution.
aggregateBlended(s, counts) ==
    LET c == classify(s)
    IN  [pWin |-> Div(Add(Mk(counts.Win, NTrials), c.pWin), N(2)),
         pDraw |-> Div(Add(Mk(counts.Draw, NTrials), c.pDraw), N(2)),
         pLoss |-> Div(Add(Mk(counts.Loss, NTrials), c.pLoss), N(2))]

\* The empirical Win / Draw / Loss fractions of the trials.
aggregate(s, counts) ==
    [pWin |-> Mk(counts.Win, NTrials),
     pDraw |-> Mk(counts.Draw, NTrials),
     pLoss |-> Mk(counts.Loss, NTrials)]

\* The selector finds the trigger false: the classifier's output is the
\* output.
SelectClassifier ==
    /\ hybridPc = "select"
    /\ ~trigger(chase)
    /\ output' = classify(chase)
    /\ source' = "classifier"
    /\ hybridPc' = "done"
    /\ UNCHANGED <<response, mainPc, model, states, callPc, features,
                   standardized, logits, probs, result, xcalc, status,
                   mainVars, pageVars, chase, trial, tally>>

\* The selector finds the trigger true and invokes the simulator, which
\* starts its first trial.
SelectSimulator ==
    /\ hybridPc = "select"
    /\ trigger(chase)
    /\ wicketsRemaining(chase) > 0
    /\ trial' = newTrial(chase.wicketsFallen)
    /\ tally' = NoTally
    /\ hybridPc' = "simulate"
    /\ UNCHANGED <<response, mainPc, model, states, callPc, features,
                   standardized, logits, probs, result, xcalc, status,
                   mainVars, pageVars, chase, output, source>>

\* The simulator invoked with no wicket remaining: an invariant violation,
\* no output.
SimulatorInvariantViolation ==
    /\ hybridPc = "select"
    /\ trigger(chase)
    /\ wicketsRemaining(chase) = 0
    /\ hybridPc' = "error"
    /\ UNCHANGED <<response, mainPc, model, states, callPc, features,
                   standardized, logits, probs, result, xcalc, status,
                   mainVars, pageVars, chase, trial, tally, output, source>>

\* One partnership of the trial, for the next wicket: its runs and overs are
\* sampled and added, and the wicket falls unless the chase is won.
Partnership ==
    /\ hybridPc = "simulate"
    /\ trial.outcome = "none"
    /\ \E r \in PartnershipRuns, o \in PartnershipOvers :
           LET runs == trial.runs + r
               overs == trial.overs + o
               wickets == trial.wickets + 1
           IN  trial' = [wickets |-> wickets, runs |-> runs, overs |-> overs,
                         partnerships |-> trial.partnerships + 1,
                         outcome |-> trialOutcome(chase, runs, wickets, overs)]
    /\ UNCHANGED <<response, mainPc, model, states, callPc, features,
                   standardized, logits, probs, result, xcalc, status,
                   mainVars, pageVars, chase, hybridPc, tally, output, source>>

\* The trial is over: its outcome is counted, and the next trial starts.
NextTrial ==
    /\ hybridPc = "simulate"
    /\ trial.outcome # "none"
    /\ tally.Win + tally.Draw + tally.Loss + 1 < NTrials
    /\ tally' = [tally EXCEPT ![trial.outcome] = @ + 1]
    /\ trial' = newTrial(chase.wicketsFallen)
    /\ UNCHANGED <<response, mainPc, model, states, callPc, features,
                   standardized, logits, probs, result, xcalc, status,
                   mainVars, pageVars, chase, hybridPc, output, source>>

\* The last trial is over: its outcome is counted and the fractions of the
\* tally are the output.
LastTrial ==
    /\ hybridPc = "simulate"
    /\ trial.outcome # "none"
    /\ tally.Win + tally.Draw + tally.Loss + 1 = NTrials
    /\ tally' = [tally EXCEPT ![trial.outcome] = @ + 1]
    /\ output' = aggregate(chase, [tally EXCEPT ![trial.outcome] = @ + 1])
    /\ source' = "simulator"
    /\ hybridPc' = "done"
    /\ UNCHANGED <<response, mainPc, model, states, callPc, features,
                   standardized, logits, probs, result, xcalc, status,
                   mainVars, pageVars, chase, trial>>

InitHybrid ==
    /\ chase \in ChaseStates
    /\ hybridPc = "select"
    /\ trial = newTrial(0)
    /\ tally = NoTally
    /\ output = NoResult
    /\ source = "none"
    /\ status = "Loading model..."
    /\ matchStates = <<>>
    /\ probPoints = <<>>
    /\ predictCalls = 0
    /\ renderCalls = 0
    /\ InitNoPage
    /\ xcalc = NoXCalc
    /\ response = [ok |-> FALSE, statusText |-> "Not Found", body |-> NoModel]
    /\ mainPc = "loading"
    /\ model = NoModel
    /\ states = [c \in Calls |-> CHOOSE s \in CallStates : TRUE]
    /\ callPc = [c \in Calls |-> "idle"]
    /\ features = [c \in Calls |-> <<>>]
    /\ standardized = [c \in Calls |-> <<>>]
    /\ logits = [c \in Calls |-> <<>>]
    /\ probs = [c \in Calls |-> <<>>]
    /\ result = [c \in Calls |-> NoResult]

NextHybrid ==
    \/ SelectClassifier
    \/ SelectSimulator
    \/ SimulatorInvariantViolation
    \/ Partnership
    \/ NextTrial
    \/ LastTrial

SpecHybrid == InitHybrid /\ [][NextHybrid]_vars

\* ------------------------------------------------- the documented contract

\* The validation spec.md section 6 asks of a consumer: featureNames,
\* featureMeans and featureStds of the feature count, 3 coefficient rows of
\* the feature count, 3 intercepts.
WellShaped(m) ==
    /\ Len(m.featureNames) = NumFeatures
    /\ Len(m.featureMeans) = NumFeatures
    /\ Len(m.featureStds) = NumFeatures
    /\ Len(m.coefficients) = 3
    /\ \A c \in DOMAIN m.coefficients : Len(m.coefficients[c]) = NumFeatures
    /\ Len(m.intercepts) = 3

NonZeroStds(m) == \A i \in DOMAIN m.featureStds : m.featureStds[i] # Zero

AllFinite(xs) == \A i \in DOMAIN xs : IsFinite(xs[i])

\* p is a number of [0, 1].
InUnit(p) == IsFinite(p) /\ Le(Zero, p) /\ Le(p, One)

\* |x| <= 1e-6.
Within1e6(x) == IsFinite(x) /\ AbsInt(x[1]) <= x[2] \div 1000000

IsDistribution(r) ==
    /\ InUnit(r.pWin)
    /\ InUnit(r.pDraw)
    /\ InUnit(r.pLoss)
    /\ Within1e6(Sub(Add(Add(r.pWin, r.pDraw), r.pLoss), One))

\* MODEL_EQUATIONS.md, Inference Steps 1 and 2, and the stable softmax of
\* spec.md section 4.2, written per element as the documents write them.
RefZ(m, x, i) == Div(Sub(x[i], m.featureMeans[i]), m.featureStds[i])

RECURSIVE RefSum(_, _, _, _)
RefSum(m, x, c, n) ==
    IF n = 0 THEN Zero
    ELSE Add(RefSum(m, x, c, n - 1), Mul(m.coefficients[c][n], RefZ(m, x, n)))

RefLogit(m, x, c) == Add(m.intercepts[c], RefSum(m, x, c, NumFeatures))

\* The largest of three logits (NaN if one of them is NaN).
RefMax(lg) ==
    IF \E c \in 1..3 : IsNaN(lg[c]) THEN NaN
    ELSE CHOOSE v \in {lg[c] : c \in 1..3} : \A c \in 1..3 : Le(lg[c], v)

\* <<P(Win), P(Draw), P(Loss)>> of three logits.
RefProbs(lg) ==
    LET mx == RefMax(lg)
        e1 == MathExp(Sub(lg[1], mx))
        e2 == MathExp(Sub(lg[2], mx))
        e3 == MathExp(Sub(lg[3], mx))
        total == Add(Add(Add(Zero, e1), e2), e3)
    IN  <<Div(e1, total), Div(e2, total), Div(e3, total)>>

\* What MODEL_EQUATIONS.md and PLAN.md say each named feature is.
FeatureByName(name, state) ==
    CASE name = "innings" -> state.innings
      [] name = "wicketsDown" -> state.wicketsDown
      [] name = "runRate" -> runRate(state)
      [] name = "lead" -> state.lead
      [] name = "ballsRemaining" -> state.ballsRemaining
      [] name = "ballsUsed" -> state.ballsBowled
      [] name = "runsPerWicket" -> runsPerWicket(state)
      [] name = "isChasing" -> (IF state.isChasing THEN One ELSE Zero)
      [] name = "requiredRunRate" -> requiredRunRate(state)

\* ----------------------------------------------------------------- claims

C2_MalformedRejected ==
    (response.ok /\ ~WellShaped(response.body))
        => (mainPc # "loaded" /\ callPc[1] = "idle")

\* C3: for every artifact loadModel accepts and every GameState whose
\* extracted features are finite, no returned probability is NaN (or
\* missing) or negative.
C3_NeverNaNOrNegative ==
    (callPc[1] = "done" /\ AllFinite(features[1]))
        => \A p \in {result[1].pWin, result[1].pDraw, result[1].pLoss} :
               ~IsNaN(p) /\ ~Lt(p, Zero)

\* C4: predict computes the documented reference math on the extracted
\* feature vector, and returns class 0 as pWin, 1 as pDraw, 2 as pLoss.
C4_ReferenceMath ==
    (callPc[1] = "done" /\ WellShaped(model))
        => LET ref == << RefLogit(model, features[1], 1),
                      RefLogit(model, features[1], 2),
                      RefLogit(model, features[1], 3) >>
               p == RefProbs(ref)
           IN  /\ \A i \in 1..NumFeatures :
                      standardized[1][i] = RefZ(model, features[1], i)
               /\ \A c \in 1..3 : logits[1][c] = ref[c]
               /\ result[1].pWin = p[1]
               /\ result[1].pDraw = p[2]
               /\ result[1].pLoss = p[3]

C4_Witness ==
    /\ callPc[1] = "done"
    /\ WellShaped(model)
    /\ AllFinite(logits[1])
    /\ logits[1][1] # logits[1][2]
    /\ logits[1][2] # logits[1][3]
    /\ result[1].pDraw # result[1].pLoss
    /\ Lt(Zero, result[1].pWin)

\* C5: when isChasing is false, the isChasing flag and requiredRunRate that
\* extractFeatures emits are exactly 0, whatever target, runsFor and
\* ballsRemaining are.
C5_ChaseFeaturesZero ==
    (callPc[1] = "features" /\ ~states[1].isChasing)
        => (features[1][7] = Zero /\ features[1][8] = Zero)

C5_Witness ==
    /\ callPc[1] = "features"
    /\ ~states[1].isChasing
    /\ Truthy(states[1].target)
    /\ Gt(states[1].ballsRemaining, Zero)
    /\ states[1].target # states[1].runsFor
    /\ features[1][8] = Zero

\* C6: for wicketsDown in 0..10, ballsBowled >= 0 and ballsRemaining >= 0
\* every one of the 8 features is finite; runRate is 0 when ballsBowled = 0
\* and requiredRunRate is 0 when ballsRemaining = 0.
C6_FeaturesFinite ==
    (/\ callPc[1] = "features"
     /\ Le(Zero, states[1].wicketsDown)
     /\ Le(states[1].wicketsDown, N(10))
     /\ Le(Zero, states[1].ballsBowled)
     /\ Le(Zero, states[1].ballsRemaining))
        => /\ Len(features[1]) = NumFeatures
           /\ AllFinite(features[1])
           /\ (states[1].ballsBowled = Zero => features[1][3] = Zero)
           /\ (states[1].ballsRemaining = Zero => features[1][8] = Zero)

C6_Witness ==
    /\ callPc[1] = "features"
    /\ states[1].wicketsDown = N(10)
    /\ states[1].ballsBowled = Zero
    /\ Gt(states[1].runsFor, Zero)
    /\ states[1].ballsRemaining = Zero
    /\ states[1].isChasing
    /\ Truthy(states[1].target)
    /\ AllFinite(features[1])

\* C7: for every loaded model and every index i, the value extractFeatures
\* puts at position i is the feature named model.featureNames[i], and it is
\* standardized with that feature's mean and scale.
C7_FeatureOrder ==
    (callPc[1] = "done" /\ WellShaped(model))
        => \A i \in 1..NumFeatures :
               /\ features[1][i] = FeatureByName(model.featureNames[i], states[1])
               /\ standardized[1][i] =
                      Div(Sub(FeatureByName(model.featureNames[i], states[1]),
                              model.featureMeans[i]),
                          model.featureStds[i])

\* C8: after any sequence of predict and extractFeatures calls the loaded
\* ModelData and every GameState passed in are unchanged.
C8_ModelAndStatesUnchanged ==
    [][(mainPc = "loaded" => model' = model) /\ states' = states]_vars

C8_Witness ==
    /\ mainPc = "loaded"
    /\ model = response.body
    /\ \A c \in Calls : callPc[c] = "done"

\* C9: in every interleaving of the calls' statements, each call returns
\* what predict returns for the model and that call's own state.
C9_ResultOfOwnState ==
    \A c \in Calls : callPc[c] = "done" => result[c] = predict(model, states[c])

C9_Witness ==
    /\ \A c \in Calls : callPc[c] = "done"
    /\ states[1] # states[2]
    /\ result[1] # result[2]
    /\ IsDistribution(result[1])
    /\ IsDistribution(result[2])

\* C10: for innings i < j and any overs a, b up to the overs limit,
\* calculateXOver(i, a) < calculateXOver(j, b); within one innings
\* calculateXOver is strictly increasing in the over.
C10_InningsDoNotOverlap ==
    (xcalc.xa # Undefined /\ xcalc.xb # Undefined)
        => /\ Lt(xcalc.a.innings, xcalc.b.innings) => Lt(xcalc.xa, xcalc.xb)
           /\ (xcalc.a.innings = xcalc.b.innings /\ Lt(xcalc.a.over, xcalc.b.over))
                  => Lt(xcalc.xa, xcalc.xb)

C10_Witness ==
    /\ xcalc.xa # Undefined
    /\ xcalc.xb # Undefined
    /\ xcalc.a.innings = N(1)
    /\ xcalc.a.over = N(MatchOversLimit)
    /\ xcalc.b.innings = N(2)
    /\ xcalc.b.over = Zero
    /\ Lt(xcalc.xa, xcalc.xb)

\* The list is in match order: innings never goes down, and ballsBowled goes
\* up strictly between two states of one innings.
Chronological(sts) ==
    \A i \in DOMAIN sts : \A j \in DOMAIN sts :
        i < j =>
            /\ Le(sts[i].innings, sts[j].innings)
            /\ sts[i].innings = sts[j].innings
                   => Lt(sts[i].ballsBowled, sts[j].ballsBowled)

C17_LoadFailureIsFatal ==
    /\ ~response.ok =>
           /\ predictCalls = 0
           /\ renderCalls = 0
           /\ mainPc \in {"loading", "error"}
    /\ mainPc = "error" =>
           status = "Error: Failed to load model: " \o response.statusText
    /\ renderCalls <= 1
    /\ renderCalls = 1 =>
           /\ model = response.body
           /\ predictCalls = Len(matchStates)
           /\ Len(probPoints) = Len(matchStates)
    /\ mainPc = "done" => renderCalls = 1

\* The load has failed with match states waiting to be predicted.
C17_Witness ==
    /\ ~response.ok
    /\ mainPc = "error"
    /\ Len(matchStates) = MaxStates

C19_RequiredRunRateNotNegative ==
    callPc[1] = "features" =>
        /\ IsFinite(features[1][8])
        /\ Le(Zero, features[1][8])
        /\ ~states[1].isChasing => features[1][8] = Zero

\* The entry gives probability 1 to the result of the match and 0 to the
\* other two.
IsFinal(p, outcome) ==
    /\ p.pWin = (IF outcome = "Win" THEN One ELSE Zero)
    /\ p.pDraw = (IF outcome = "Draw" THEN One ELSE Zero)
    /\ p.pLoss = (IF outcome = "Loss" THEN One ELSE Zero)

C20_RedrawnAtCurrentSize ==
    (resizeTimeout > 0 /\ timers = {}) =>
        \A c \in DOMAIN charts :
            Len(charts[c].data) > 0 =>
                /\ drawn[c].chartWidth =
                       container.clientWidth - DefaultMargin.left - DefaultMargin.right
                /\ drawn[c].chartHeight =
                       container.clientHeight - DefaultMargin.top - DefaultMargin.bottom

\* C13: the selector invokes the simulator for a state exactly when
\* innings = 4 and (wickets remaining <= 3 or runs required <= 80) and overs
\* remaining > 30: 30 overs remaining do not trigger, 3 wickets remaining
\* and 80 runs required do, and innings 1, 2 and 3 never do.
C13_TriggerPredicate ==
    hybridPc # "select" =>
        /\ (hybridPc \in {"simulate", "error"} \/ source = "simulator")
               <=> /\ chase.innings = 4
                   /\ (10 - chase.wicketsFallen <= 3 \/ chase.runsRequired <= 80)
                   /\ chase.oversRemaining > 30
        /\ chase.oversRemaining = 30 => source = "classifier"
        /\ chase.innings \in {1, 2, 3} => source = "classifier"
        /\ (chase.innings = 4 /\ chase.oversRemaining = 31
                /\ (10 - chase.wicketsFallen = 3 \/ chase.runsRequired = 80))
               => source # "classifier"

\* The simulator has answered for a state at the limits: 80 runs required,
\* every wicket in hand, 31 overs remaining.
C13_Witness ==
    /\ hybridPc = "done"
    /\ source = "simulator"
    /\ chase.runsRequired = 80
    /\ chase.wicketsFallen = 0
    /\ chase.oversRemaining = 31

\* C14: a Monte Carlo trial is over after at most 10 - wickets fallen
\* partnerships, with exactly one outcome: Win if the runs scored reach the
\* runs required, Loss if the 10th wicket has gone with runs still required,
\* Draw if the overs have gone with runs still required and wickets in hand;
\* every finished trial is counted once.
C14_TrialTerminates ==
    /\ hybridPc = "simulate" =>
           /\ trial.wickets = chase.wicketsFallen + trial.partnerships
           /\ trial.partnerships <= 10 - chase.wicketsFallen
           /\ trial.partnerships = 10 - chase.wicketsFallen
                  => trial.outcome \in {"Win", "Loss"}
           /\ trial.outcome \in {"none", "Win", "Draw", "Loss"}
           /\ trial.outcome = "Win" <=> trial.runs >= chase.runsRequired
           /\ trial.outcome = "Loss" <=>
                  (trial.runs < chase.runsRequired /\ trial.wickets = 10)
           /\ trial.outcome = "Draw" <=>
                  /\ trial.runs < chase.runsRequired
                  /\ trial.wickets < 10
                  /\ trial.overs >= chase.oversRemaining
           /\ tally.Win + tally.Draw + tally.Loss < NTrials
    /\ source = "simulator" => tally.Win + tally.Draw + tally.Loss = NTrials

\* A trial begun with 3 wickets in hand has ended in a Loss at its third
\* partnership, after an earlier trial was drawn.
C14_Witness ==
    /\ hybridPc = "simulate"
    /\ chase.wicketsFallen = 7
    /\ trial.partnerships = 3
    /\ trial.outcome = "Loss"
    /\ tally.Draw = 1

C16_NeverWithoutWickets ==
    /\ (hybridPc \in {"simulate", "error"} \/ source = "simulator")
           => 10 - chase.wicketsFallen >= 1
    /\ hybridPc = "error" => (source = "none" /\ output = NoResult)

\* C26: if test.probabilities is sorted by non-decreasing xOver, the series
\* passed to chart.render is sorted by non-decreasing xOver, the transition
\* point at matchEndOver included.
C26_SeriesSorted ==
    LET NonDecreasing(s) ==
            \A i \in 1..(Len(s) - 1) : Le(s[i].xOver, s[i + 1].xOver)
    IN  \A c \in DOMAIN charts :
            NonDecreasing(tests[c].probabilities)
                => NonDecreasing(charts[c].data)

\* C27: every entry of test.probabilities is in the rendered series, in the
\* original order, and the only entry added is the transition point, the
\* first 'Match Complete' entry moved to matchEndOver, added exactly when
\* matchEndOver is defined and there is a 'Match Complete' entry.
C27_NoPointLost ==
    \A c \in DOMAIN toRender :
        LET ps == tests[c].probabilities
            complete == filter(ps, TRUE)
            series == toRender[c]
            Without(s, k) == SubSeq(s, 1, k - 1) \o SubSeq(s, k + 1, Len(s))
        IN  IF tests[c].matchEndOver # Undefined /\ Len(complete) > 0
            THEN \E k \in 1..Len(series) :
                     /\ series[k] = [complete[1] EXCEPT
                                         !.xOver = tests[c].matchEndOver]
                     /\ Without(series, k) = ps
            ELSE series = ps

\* C21: resize events are debounced.  At most one timeout of the resize
\* listener is pending at any time; a re-render pass (a timeout's callback
\* runs, so one pending timeout fewer) happens only when ResizeDelay ms have
\* gone by with no 'resize' event, and leaves no timeout pending, so the
\* events of a burst are followed by one pass and no second one; and while
\* a timeout is pending the pass eventually happens.
C21_ResizeDebounced ==
    /\ [](Cardinality(timers) <= 1)
    /\ [][Cardinality(timers') < Cardinality(timers) =>
              (elapsed >= ResizeDelay /\ timers' = {})]_vars
    /\ ((timers # {}) ~> (timers = {}))

\* Two 'resize' events less than ResizeDelay ms apart, then one pass.
C21_Witness ==
    /\ resizeTimeout = 2
    /\ timers = {}
    /\ elapsed = ResizeDelay
    /\ Len(drawn) = MaxTests

\* C22: in the checkbox build, whatever the interleaving of checkbox changes
\* and resize re-renders, each chart's stored series, and the series it last
\* rendered, is the scorecard-only series when its checkbox is checked and
\* the full-model series when it is not.
C22_SeriesFollowsCheckbox ==
    build = "checkbox" =>
        \A c \in DOMAIN charts :
            /\ charts[c].data = getProbPoints(toRender[c], checked[c])
            /\ drawn[c].data = getProbPoints(toRender[c], checked[c])

\* The first chart toggled to the full model and re-rendered by a resize,
\* the second one still checked.
C22_Witness ==
    /\ build = "checkbox"
    /\ Len(charts) = 2
    /\ checked = <<FALSE, TRUE>>
    /\ resizeTimeout > 0
    /\ timers = {}
    /\ Len(drawn[1].data) > 0
    /\ drawn[1].data # drawn[2].data

\* C23: wicket markers use the same logic as the tooltip.  With the mouse
\* over a bucket between two consecutive data points before the match end,
\* the wickets the tooltip reports are the wickets that size the bucket's
\* marker (stroke width 2 for each wicket; no marker, no wickets).
C23_MarkerMatchesTooltip ==
    \A c \in DOMAIN drawn :
        LET h == drawn[c].hover
            chart == charts[c].chart
            marked == {i \in DOMAIN drawn[c].elements :
                          /\ drawn[c].elements[i].kind = "wicket-line"
                          /\ drawn[c].elements[i].innings = h.dataPoint.innings
                          /\ drawn[c].elements[i].bucketEnd = h.dataPoint.xOver}
        IN  (/\ h.shown
             /\ h.index > 0
             /\ h.index < Len(drawn[c].data)
             /\ ~(/\ chart.matchEndOver # Undefined
                  /\ Le(chart.matchEndOver, h.dataPoint.xOver)))
            => IF marked = {} THEN h.wickets = 0
               ELSE \A i \in marked :
                        drawn[c].elements[i].strokeWidth = 2 * h.wickets

\* C24: each wicket fall is counted in exactly one bucket.  For data sorted
\* by xOver and falls counted 1, 2, ... the wickets of the markers of an
\* innings add up to the falls of that innings up to the last data point, a
\* fall at the xOver of a data point included.
C24_EachFallInOneBucket ==
    \A c \in DOMAIN drawn :
        Len(drawn[c].data) > 0 =>
            LET chart == charts[c].chart
                data == drawn[c].data
                lines == SelectSeq(drawn[c].elements,
                                   LAMBDA e : e.kind = "wicket-line")
                RECURSIVE sum(_)
                sum(i) == IF i > Len(lines) THEN 0
                          ELSE lines[i].strokeWidth \div 2 + sum(i + 1)
            IN  sum(1) = Cardinality({w \in chart.wicketFalls :
                                        Le(w.xOver, data[Len(data)].xOver)})

\* C25: the hover tooltip agrees with the chart.  With the mouse strictly
\* between two consecutive data points, before the match end, the
\* probabilities of the tooltip, and the edges of the highlight, are those
\* of the data point whose value the step-after areas have under the mouse.
C25_TooltipMatchesArea ==
    \A c \in DOMAIN drawn :
        LET h == drawn[c].hover
            chart == charts[c].chart
            data == drawn[c].data
            xOver == xInvert(chart, N(h.mouseX))
            areaWin == drawn[c].elements[1]
            areaDraw == drawn[c].elements[2]
            i == curveStepAfter(areaWin.shape, N(h.mouseX))
        IN  (/\ h.shown
             /\ \E k \in 1..(Len(data) - 1) :
                    Lt(data[k].xOver, xOver) /\ Lt(xOver, data[k + 1].xOver)
             /\ ~(chart.matchEndOver # Undefined /\ Le(chart.matchEndOver, xOver)))
            => /\ h.dataPoint.pWin = data[i].pWin
               /\ h.dataPoint.pDraw = data[i].pDraw
               /\ h.dataPoint.pLoss = data[i].pLoss
               /\ h.win = areaWin.shape[i].y1
               /\ h.draw = areaDraw.shape[i].y1

C29_BandsPartition ==
    \A c \in DOMAIN drawn :
        \A i \in DOMAIN drawn[c].data :
            LET d == drawn[c].data[i]
                p(y) == Sub(One, Div(y, N(drawn[c].chartHeight)))
                win == drawn[c].elements[1].shape[i]
                draw == drawn[c].elements[2].shape[i]
                loss == drawn[c].elements[3].shape[i]
            IN  (Le(Zero, d.pWin) /\ Le(Zero, d.pDraw)
                     /\ Le(Add(d.pWin, d.pDraw), One))
                => /\ p(win.y0) = Zero
                   /\ p(win.y1) = d.pWin
                   /\ p(draw.y0) = d.pWin
                   /\ p(draw.y1) = Add(d.pWin, d.pDraw)
                   /\ p(loss.y0) = Add(d.pWin, d.pDraw)
                   /\ p(loss.y1) = One
                   /\ Sub(p(loss.y1), p(loss.y0))
                          = Sub(Sub(One, d.pWin), d.pDraw)

\* A data point drawn whose pLoss is not 1 - pWin - pDraw.
C29_Witness ==
    \E c \in DOMAIN drawn :
        \E i \in DOMAIN drawn[c].data :
            /\ Add(Add(drawn[c].data[i].pWin, drawn[c].data[i].pDraw),
                   drawn[c].data[i].pLoss) # One
            /\ drawn[c].elements[3].kind = "area-loss"
            /\ Lt(Zero, drawn[c].elements[3].shape[i].y0)

====
